---- MODULE Spec2Model ----
(***************************************************************************)
(* PyVoicing: the Voicing class of src/src/pyvoicing/voicing.py with the   *)
(* parts of Pitch, Chroma and Interval its operations go through.          *)
(*                                                                         *)
(* A Pitch is modelled by its value, a Chroma by its offset, an Interval   *)
(* by its distance.  A Voicing object is a root (None or a Chroma) and a   *)
(* reference to a Python list of pitches; lists live in a small heap so    *)
(* that copying and in-place edits are distinguishable.                    *)
(***************************************************************************)
EXTENDS Integers, Sequences, FiniteSets, TLC

\* ------------------------------------------------------------------ bounds
\* number of client variables holding Voicing objects in the object machine
NumSlots == 2
\* longest pitch list a voicing of the object machine may hold
MaxLen == 2
\* the object machine draws its pitches from the C's of octave 4 .. 4+OctaveSpan
OctaveSpan == 1

\* ------------------------------------------------------- program constants
\* semitones per octave
Octave == 12
\* value of Pitch('C', 4)
BaseValue == 60

Slots == 1..NumSlots
ListIds == 1..NumSlots
Values == {BaseValue + Octave * k : k \in 0..OctaveSpan}
Shifts == {Octave, 0 - Octave}

\* None, as the absence of a root
None == <<>>
\* a Chroma with the given offset, as a root
Some(x) == <<x>>

\* ----------------------------------------------------------------- helpers
\* the lists of at most n elements of S
SeqsUpTo(S, n) == UNION {[1..k -> S] : k \in 0..n}

\* ------------------------------------------------------------------ Chroma
\* the remainder with the sign of n, as a truncating division leaves it
ChromaInitRem(n) == IF n < 0 THEN 0 - ((0 - n) % 12) ELSE n % 12

\* Chroma(int): the offset is reduced mod 12
ChromaInit(n) == n % 12

\* Interval(int).distance and Interval(Chroma).distance
IntervalInit(n) == n

\* Interval.offset
IntervalOffset(d) == d % 12

\* Chroma.__add__ (also * and >>): Chroma((Interval(value) + self.offset).offset)
ChromaAdd(offset, d) == ChromaInit(IntervalOffset(IntervalInit(d) + offset))

\* moving down by the size of the distance, whatever its sign
ChromaSubUnsigned(offset, d) ==
    ChromaInit(offset - (IF IntervalInit(d) < 0 THEN 0 - IntervalInit(d) ELSE IntervalInit(d)))

\* Chroma.__sub__ with an interval-like value (also / and <<)
ChromaSub(offset, d) == ChromaInit(offset - IntervalInit(d))

\* Chroma.__sub__ with a Chroma: the integer difference in 0..11
ChromaDiff(offset, other) == (offset - other) % 12

\* ------------------------------------------------------------------- Pitch
\* Pitch.offset
PitchOffset(v) == v % 12

\* the octave by a division that truncates toward zero
PitchOctaveTrunc(v) == (IF v < 0 THEN 0 - ((0 - v) \div 12) ELSE v \div 12) - 1

\* Pitch.octave
PitchOctave(v) == (v \div 12) - 1

\* transposing by the interval's offset instead of its distance
PitchMulOffset(v, d) == v + IntervalOffset(IntervalInit(d))

\* Pitch.__mul__ / __rshift__ with an interval-like value
PitchMul(v, d) == v + IntervalInit(d)

\* Pitch.__truediv__ / __lshift__ with an interval-like value
PitchTruediv(v, d) == v - IntervalInit(d)

\* Pitch.__sub__: the signed semitone difference
PitchSub(v, w) == v - w

\* Pitch.__eq__ between two pitches
PitchEq(v, w) == v = w

\* lower than or equal to
PitchLe(v, w) == v <= w

\* Pitch.__lt__ between two pitches
PitchLt(v, w) == v < w

\* Pitch.__gt__ between two pitches
PitchGt(v, w) == v > w

\* --------------------------------------------------------- list primitives
\* `p in voicing`: iteration over the pitches with Pitch.__eq__
Contains(ps, p) == \E i \in 1..Len(ps) : PitchEq(ps[i], p)

\* list.remove(p): drops the first element equal to p (the caller checks membership)
ListRemove(ps, p) ==
    LET i == CHOOSE k \in 1..Len(ps) : PitchEq(ps[k], p) /\ \A j \in 1..(k - 1) : ~PitchEq(ps[j], p)
    IN  SubSeq(ps, 1, i - 1) \o SubSeq(ps, i + 1, Len(ps))

\* insertion of one pitch into an ascending list, after its equals (stable)
RECURSIVE Insert(_, _)
Insert(ps, p) ==
    IF ps = <<>> THEN <<p>>
    ELSE IF PitchLt(p, Head(ps)) THEN <<p>> \o ps
    ELSE <<Head(ps)>> \o Insert(Tail(ps), p)

RECURSIVE SortFrom(_, _)
SortFrom(done, rest) ==
    IF rest = <<>> THEN done ELSE SortFrom(Insert(done, Head(rest)), Tail(rest))

\* list.sort() on a list of pitches (ordered by Pitch.__lt__)
SortPitches(ps) == SortFrom(<<>>, ps)

\* ------------------------------------------------ arguments and outcomes
\* a Python argument: its runtime type, its scalar payload, its elements and,
\* for a Voicing, its root
Arg(kind, value, items) == [kind |-> kind, value |-> value, items |-> items, root |-> None]
NoArg == Arg("None", 0, <<>>)
\* a Voicing passed as an argument: held by client variable s (0: a temporary)
VoicingArg(s, r, ps) == [kind |-> "Voicing", value |-> s, items |-> ps, root |-> r]

\* a Voicing by value: its root (None or Some(offset)) and its pitch values
Val(r, ps) == [root |-> r, pitches |-> ps]

\* the outcome of an operation returning a Voicing: the exception raised, if any
Ok(r, ps) == [err |-> "", root |-> r, pitches |-> ps]
Raise(e) == [err |-> e, root |-> None, pitches |-> <<>>]

\* ----------------------------------------------------------------- Voicing
\* the root setter: None stays None, anything else goes through Chroma(value)
RootSetter(arg) ==
    CASE arg.kind = "None" -> Ok(None, <<>>)
      [] arg.kind = "int" -> Ok(Some(ChromaInit(arg.value)), <<>>)
      [] arg.kind = "Chroma" -> Ok(Some(arg.value), <<>>)
      [] arg.kind = "Pitch" -> Ok(Some(PitchOffset(arg.value)), <<>>)
      [] OTHER -> Raise("TypeError")

\* Voicing.__init__(pitches, root): pitches is iterated first, then the root is set
VoicingInit(pitches, root) ==
    IF pitches.kind \notin {"list", "Voicing"} THEN Raise("TypeError")
    ELSE LET r == RootSetter(root)
         IN  IF r.err # "" THEN r ELSE Ok(r.root, pitches.items)

RECURSIVE AppendNew(_, _)
AppendNew(ps, items) ==
    IF items = <<>> THEN ps
    ELSE AppendNew(IF Contains(ps, Head(items)) THEN ps ELSE Append(ps, Head(items)), Tail(items))

\* Voicing.__add__
VoicingAddDedup(self, value) ==
    CASE value.kind \in {"Pitch", "list", "Voicing"} ->
            Ok(self.root,
               SortPitches(AppendNew(self.pitches,
                                     IF value.kind = "Pitch" THEN <<value.value>> ELSE value.items)))
      [] OTHER -> Raise("TypeError")
\* every element of a list is appended, whatever its type
VoicingAddUnchecked(self, value) ==
    CASE value.kind = "Pitch" ->
            Ok(self.root,
               SortPitches(IF ~Contains(self.pitches, value.value)
                           THEN Append(self.pitches, value.value)
                           ELSE self.pitches))
      [] value.kind \in {"list", "Voicing"} ->
            Ok(self.root, SortPitches(self.pitches \o value.items))
      [] OTHER -> Raise("TypeError")

\* a list whose element at position value.value (1-based, 0: none) is not a
\* Pitch makes the loop raise there; what was appended before went to the deep
\* copy ret, which the failure discards
VoicingAdd(self, value) ==
    CASE value.kind = "Pitch" ->
            Ok(self.root,
               SortPitches(IF ~Contains(self.pitches, value.value)
                           THEN Append(self.pitches, value.value)
                           ELSE self.pitches))
      [] value.kind = "list" /\ value.value # 0 -> Raise("TypeError")
      [] value.kind \in {"list", "Voicing"} ->
            Ok(self.root, SortPitches(self.pitches \o value.items))
      [] OTHER -> Raise("TypeError")

\* the loop of Voicing.__sub__: membership is tested on self, removal acts on ret
RECURSIVE SubLoop(_, _, _)
SubLoop(selfPitches, ret, items) ==
    IF items = <<>> THEN [err |-> "", pitches |-> ret]
    ELSE IF Contains(selfPitches, Head(items))
         THEN IF Contains(ret, Head(items))
              THEN SubLoop(selfPitches, ListRemove(ret, Head(items)), Tail(items))
              ELSE [err |-> "ValueError", pitches |-> ret]
         ELSE SubLoop(selfPitches, ret, Tail(items))

\* Voicing.__sub__
VoicingSub(self, value) ==
    CASE value.kind = "Pitch" ->
            LET r == SubLoop(self.pitches, self.pitches, <<value.value>>)
            IN  IF r.err # "" THEN Raise(r.err) ELSE Ok(self.root, r.pitches)
      [] value.kind \in {"list", "Voicing"} ->
            LET r == SubLoop(self.pitches, self.pitches, value.items)
            IN  IF r.err # "" THEN Raise(r.err) ELSE Ok(self.root, r.pitches)
      [] OTHER -> Raise("TypeError")

\* every pitch is moved up, the root stays
VoicingMulPitches(self, value) ==
    IF self.root = None \/ value.kind \notin {"int", "Chroma", "Interval"} THEN Raise("TypeError")
    ELSE Ok(self.root, [i \in 1..Len(self.pitches) |-> PitchMul(self.pitches[i], value.value)])

\* Voicing.__mul__: root += value, then every pitch *= value
VoicingMul(self, value) ==
    IF self.root = None \/ value.kind \notin {"int", "Chroma", "Interval"} THEN Raise("TypeError")
    ELSE Ok(Some(ChromaAdd(self.root[1], value.value)),
            [i \in 1..Len(self.pitches) |-> PitchMul(self.pitches[i], value.value)])

\* Voicing.__rshift__
VoicingRshift(self, value) ==
    IF self.root = None \/ value.kind \notin {"int", "Chroma", "Interval"} THEN Raise("TypeError")
    ELSE Ok(Some(ChromaAdd(self.root[1], value.value)),
            [i \in 1..Len(self.pitches) |-> PitchMul(self.pitches[i], value.value)])

\* Voicing.__truediv__: root -= value (an int difference when value is a Chroma,
\* which the root setter turns back into a Chroma), then every pitch /= value
VoicingTruediv(self, value) ==
    IF self.root = None \/ value.kind \notin {"int", "Chroma", "Interval"} THEN Raise("TypeError")
    ELSE Ok(Some(IF value.kind = "Chroma"
                 THEN ChromaInit(ChromaDiff(self.root[1], value.value))
                 ELSE ChromaSub(self.root[1], value.value)),
            [i \in 1..Len(self.pitches) |-> PitchTruediv(self.pitches[i], value.value)])

\* Voicing.__lshift__
VoicingLshift(self, value) ==
    IF self.root = None \/ value.kind \notin {"int", "Chroma", "Interval"} THEN Raise("TypeError")
    ELSE Ok(Some(IF value.kind = "Chroma"
                 THEN ChromaInit(ChromaDiff(self.root[1], value.value))
                 ELSE ChromaSub(self.root[1], value.value)),
            [i \in 1..Len(self.pitches) |-> PitchTruediv(self.pitches[i], value.value)])

\* list == list: same length and Pitch.__eq__ holds element by element
ListEq(ps, qs) == Len(ps) = Len(qs) /\ \A i \in 1..Len(ps) : PitchEq(ps[i], qs[i])

\* root == root for two roots that may be None: Chroma.__eq__ compares offsets,
\* None equals only None
RootEq(r, q) == IF r = None \/ q = None THEN r = q ELSE r[1] = q[1]

\* Voicing.__eq__ with another Voicing; flag is the value returned
VoicingEqExact(self, other) ==
    IF Len(self.pitches) # Len(other.pitches) THEN [err |-> "", flag |-> FALSE]
    ELSE IF Len(self.pitches) > 0
         THEN [err |-> "", flag |-> ListEq(self.pitches, other.pitches)]
         ELSE [err |-> "", flag |-> RootEq(self.root, other.root)]
VoicingEq(self, other) ==
    IF Len(self.pitches) # Len(other.pitches) THEN [err |-> "", flag |-> FALSE]
    ELSE IF Len(self.pitches) > 0
         THEN LET d == PitchSub(self.pitches[1], other.pitches[1])
                  shifted == VoicingLshift(self, Arg("int", d, <<>>))
              IN  IF shifted.err # "" THEN [err |-> shifted.err, flag |-> FALSE]
                  ELSE [err |-> "", flag |-> ListEq(shifted.pitches, other.pitches)]
         ELSE [err |-> "", flag |-> RootEq(self.root, other.root)]

\* ------------------------------------------------- chord-tone classifier
\* has(*values) of Voicing.__invert__: any of the values is among the offsets
Has(offsets, values) == \E i \in 1..Len(offsets) : offsets[i] \in values

\* all(_ in offsets for _ in values)
HasAll(offsets, values) == \A v \in values : \E i \in 1..Len(offsets) : offsets[i] = v

\* case 10 of the match statement of Voicing.__invert__
LegacySeventh(offsets) == IF Has(offsets, {3}) THEN "min7" ELSE "dom7"
SeventhByMinorThird(offsets) == IF Has(offsets, {3}) THEN "dom7" ELSE "min7"
Seventh(offsets) == IF Has(offsets, {4}) THEN "dom7" ELSE "min7"

\* the match statement of Voicing.__invert__ for the pitch p with offset off
ToneOf(off, p, root, offsets) ==
    CASE off = 0 -> "1"
      [] off = 1 -> "b9"
      [] off = 2 -> IF PitchSub(p, root) > 12
                    THEN (IF Has(offsets, {10, 11}) THEN "9" ELSE "add9")
                    ELSE (IF Has(offsets, {3, 4}) THEN "add2" ELSE "sus2")
      [] off = 3 -> IF Has(offsets, {4}) THEN "#9" ELSE "min3"
      [] off = 4 -> "maj3"
      [] off = 5 -> IF PitchSub(p, root) > 12
                    THEN (IF Has(offsets, {10, 11}) THEN "11" ELSE "add11")
                    ELSE (IF Has(offsets, {3, 4}) THEN "add4" ELSE "sus4")
      [] off = 6 -> IF Has(offsets, {4, 7, 9}) THEN "#11"
                    ELSE IF Has(offsets, {3, 5}) THEN "b5"
                    ELSE IF PitchSub(p, root) > 12 THEN "#11" ELSE "b5"
      [] off = 7 -> "5"
      [] off = 8 -> IF Has(offsets, {1, 3, 5, 6, 7, 9, 10}) THEN "b13" ELSE "#5"
      [] off = 9 -> IF PitchSub(p, root) > 12 THEN "13"
                    ELSE IF HasAll(offsets, {0, 3, 6}) /\ ~Has(offsets, {10, 11}) THEN "dim7"
                    ELSE "6"
      [] off = 10 -> Seventh(offsets)
      [] off = 11 -> "maj7"

\* Voicing.__invert__: tones is the list returned
VoicingInvert(self) ==
    IF self.pitches = <<>> THEN [err |-> "", tones |-> <<>>]
    ELSE LET shifted == VoicingLshift(self, IF self.root = None THEN NoArg
                                             ELSE Arg("Chroma", self.root[1], <<>>))
         IN  IF shifted.err # "" THEN [err |-> shifted.err, tones |-> <<>>]
             ELSE LET offsets == [i \in 1..Len(shifted.pitches) |-> PitchOffset(shifted.pitches[i])]
                      root == PitchTruediv(self.pitches[1], offsets[1])
                  IN  [err |-> "",
                       tones |-> [i \in 1..Len(self.pitches) |->
                                    ToneOf(offsets[i], self.pitches[i], root, offsets)]]

\* ---------------------------------------------------------------- csv text
\* A string is a sequence of one-character strings.
Digits == <<"0", "1", "2", "3", "4", "5", "6", "7", "8", "9">>
DigitValue(c) == (CHOOSE i \in 1..10 : Digits[i] = c) - 1
IsDigit(c) == \E i \in 1..10 : Digits[i] = c

RECURSIVE NatStr(_)
NatStr(n) == IF n < 10 THEN <<Digits[n + 1]>> ELSE NatStr(n \div 10) \o <<Digits[(n % 10) + 1]>>

\* str(int)
UnsignedStr(n) == IF n < 0 THEN NatStr(0 - n) ELSE NatStr(n)
IntStr(n) == IF n < 0 THEN <<"-">> \o NatStr(0 - n) ELSE NatStr(n)

\* ",".join(parts)
RECURSIVE Join(_)
Join(parts) ==
    IF parts = <<>> THEN <<>>
    ELSE IF Len(parts) = 1 THEN parts[1]
    ELSE parts[1] \o <<",">> \o Join(Tail(parts))

\* text.split(','): the fields between commas, at least one
RECURSIVE SplitFrom(_, _, _)
SplitFrom(done, field, text) ==
    IF text = <<>> THEN Append(done, field)
    ELSE IF Head(text) = "," THEN SplitFrom(Append(done, field), <<>>, Tail(text))
    ELSE SplitFrom(done, Append(field, Head(text)), Tail(text))

Split(text) == SplitFrom(<<>>, <<>>, text)

RECURSIVE DigitsValue(_, _)
DigitsValue(acc, ds) == IF ds = <<>> THEN acc ELSE DigitsValue(acc * 10 + DigitValue(Head(ds)), Tail(ds))

\* int(field) for an optional sign followed by decimal digits; anything else
\* raises ValueError
ParseInt(field) ==
    LET signed == field # <<>> /\ Head(field) \in {"-", "+"}
        ds == IF signed THEN Tail(field) ELSE field
    IN  IF ds = <<>> \/ \E i \in 1..Len(ds) : ~IsDigit(ds[i])
        THEN [err |-> "ValueError", value |-> 0]
        ELSE [err |-> "",
              value |-> IF signed /\ Head(field) = "-" THEN 0 - DigitsValue(0, ds)
                        ELSE DigitsValue(0, ds)]

\* the csv getter: text is the string returned
VoicingCsv(self) ==
    IF self.root = None THEN [err |-> "AttributeError", text |-> <<>>]
    ELSE IF Len(self.pitches) = 0 THEN [err |-> "", text |-> IntStr(self.root[1])]
    ELSE [err |-> "",
          text |-> IntStr(self.root[1]) \o <<",">>
                   \o Join([i \in 1..Len(self.pitches) |-> IntStr(self.pitches[i])])]

\* Voicing.from_csv: an empty Voicing whose csv setter parses the text
VoicingFromCsv(text) ==
    LET fields == Split(text)
        values == [i \in 1..Len(fields) |-> ParseInt(fields[i])]
    IN  IF \E i \in 1..Len(values) : values[i].err # "" THEN Raise("ValueError")
        ELSE Ok(Some(ChromaInit(values[1].value)),
                [i \in 1..(Len(values) - 1) |-> values[i + 1].value])

\* ------------------------------------------------------------ name tables
\* CHROMA_OF: the canonical (flat) name of each offset 0..11, as text
CHROMA_OF ==
    <<<<"C">>, <<"D", "b">>, <<"D">>, <<"E", "b">>, <<"E">>, <<"F">>, <<"G", "b">>, <<"G">>,
      <<"A", "b">>, <<"A">>, <<"B", "b">>, <<"B">>>>

\* OFFSET_OF restricted to the pitch-class names: name and offset
NameOffsets ==
    {<<<<"C">>, 0>>, <<<<"C", "#">>, 1>>, <<<<"D", "b">>, 1>>, <<<<"D">>, 2>>, <<<<"D", "#">>, 3>>,
     <<<<"E", "b">>, 3>>, <<<<"E">>, 4>>, <<<<"F">>, 5>>, <<<<"F", "#">>, 6>>, <<<<"G", "b">>, 6>>,
     <<<<"G">>, 7>>, <<<<"G", "#">>, 8>>, <<<<"A", "b">>, 8>>, <<<<"A">>, 9>>, <<<<"A", "#">>, 10>>,
     <<<<"B", "b">>, 10>>, <<<<"B">>, 11>>}
OffsetNames == {p[1] : p \in NameOffsets}
OFFSET_OF(name) == (CHOOSE p \in NameOffsets : p[1] = name)[2]

\* Pitch.name
PitchName(v) == CHROMA_OF[PitchOffset(v) + 1]

\* Pitch.__str__: the name followed by the octave
PitchStr(v) == PitchName(v) \o IntStr(PitchOctave(v))

\* the text of a chord-tone tag
TagText(tag) ==
    CASE tag = "1" -> <<"1">>
      [] tag = "b9" -> <<"b", "9">>
      [] tag = "9" -> <<"9">>
      [] tag = "add9" -> <<"a", "d", "d", "9">>
      [] tag = "add2" -> <<"a", "d", "d", "2">>
      [] tag = "sus2" -> <<"s", "u", "s", "2">>
      [] tag = "#9" -> <<"#", "9">>
      [] tag = "min3" -> <<"m", "i", "n", "3">>
      [] tag = "maj3" -> <<"m", "a", "j", "3">>
      [] tag = "11" -> <<"1", "1">>
      [] tag = "add11" -> <<"a", "d", "d", "1", "1">>
      [] tag = "add4" -> <<"a", "d", "d", "4">>
      [] tag = "sus4" -> <<"s", "u", "s", "4">>
      [] tag = "#11" -> <<"#", "1", "1">>
      [] tag = "b5" -> <<"b", "5">>
      [] tag = "5" -> <<"5">>
      [] tag = "b13" -> <<"b", "1", "3">>
      [] tag = "#5" -> <<"#", "5">>
      [] tag = "13" -> <<"1", "3">>
      [] tag = "dim7" -> <<"d", "i", "m", "7">>
      [] tag = "6" -> <<"6">>
      [] tag = "dom7" -> <<"d", "o", "m", "7">>
      [] tag = "min7" -> <<"m", "i", "n", "7">>
      [] tag = "maj7" -> <<"m", "a", "j", "7">>

\* Voicing.__str__: the root's name (None when there is no root), an empty
\* quality, and the pitches' strings between brackets, separated by spaces
VoicingStr(self) ==
    LET ps == self.pitches
        joined[i \in 0..Len(ps)] ==
            IF i = 0 THEN <<>>
            ELSE joined[i - 1] \o (IF i > 1 THEN <<" ">> ELSE <<>>) \o PitchStr(ps[i])
    IN  (IF self.root = None THEN <<"N", "o", "n", "e">> ELSE CHROMA_OF[self.root[1] + 1])
            \o <<"[">> \o joined[Len(ps)] \o <<"]">>

\* the voicing shifted so that its first pitch lands on the target
VoicingFloordivFirst(self, target) ==
    IF Len(self.pitches) = 0 THEN Ok(self.root, self.pitches)
    ELSE IF self.root = None \/ target.kind \notin {"int", "Pitch"} THEN Raise("TypeError")
    ELSE VoicingLshift(self, Arg("int", PitchSub(self.pitches[1], target.value), <<>>))

\* Voicing.__floordiv__: an empty voicing is copied; otherwise the reference root
\* pitch is the first pitch lowered by its offset from the root, and the voicing
\* is moved down by reference root - Pitch(target)
VoicingFloordiv(self, target) ==
    IF Len(self.pitches) = 0 THEN Ok(self.root, self.pitches)
    ELSE IF self.root = None THEN Raise("TypeError")
    ELSE LET first == self.pitches[1]
             ref == PitchTruediv(first, ChromaDiff(PitchOffset(first), self.root[1]))
         IN  CASE target.kind \in {"int", "Pitch"} ->
                     VoicingLshift(self, Arg("int", PitchSub(ref, target.value), <<>>))
               [] target.kind = "Chroma" ->
                     VoicingLshift(self, Arg("int", PitchSub(ref, target.value + 5 * 12), <<>>))
               [] target.kind = "str" ->
                     IF target.items \notin OffsetNames THEN Raise("KeyError")
                     ELSE VoicingLshift(self,
                             Arg("int", PitchSub(ref, OFFSET_OF(target.items) + 5 * 12), <<>>))
               [] OTHER -> Raise("TypeError")

\* ------------------------------------------------------------ keyed access
\* Pitch.__eq__ with any operand: an int or Pitch by value, a str by the
\* canonical name, an Interval by offset against distance, a Chroma by offset
PitchEqual(v, other) ==
    CASE other.kind \in {"int", "Pitch"} -> v = other.value
      [] other.kind = "str" -> PitchName(v) = other.items
      [] other.kind = "Interval" -> PitchOffset(v) = other.value
      [] other.kind = "Chroma" -> PitchOffset(v) = other.value
      [] OTHER -> FALSE

\* Chroma.__eq__ with any operand: an int by its value modulo 12, a str by the
\* offset the name table gives it (KeyError for an unknown name), a Chroma or
\* a Pitch by offset, anything else is not equal
ChromaEqual(offset, other) ==
    CASE other.kind = "int" -> [err |-> "", eq |-> offset = other.value % 12]
      [] other.kind = "str" ->
            IF other.items \notin OffsetNames THEN [err |-> "KeyError", eq |-> FALSE]
            ELSE [err |-> "", eq |-> offset = OFFSET_OF(other.items)]
      [] other.kind = "Chroma" -> [err |-> "", eq |-> offset = other.value]
      [] other.kind = "Pitch" -> [err |-> "", eq |-> offset = PitchOffset(other.value)]
      [] OTHER -> [err |-> "", eq |-> FALSE]

\* the position of the last element when there is none equal to key
LastWhenAbsent(ps, key) ==
    IF \E i \in 1..Len(ps) : PitchEqual(ps[i], key)
    THEN (CHOOSE i \in 1..Len(ps) :
             PitchEqual(ps[i], key) /\ \A j \in 1..(i - 1) : ~PitchEqual(ps[j], key)) - 1
    ELSE Len(ps) - 1
\* list.index(key) inside try/except ValueError: the 0-based position of the
\* first element equal to key, -1 when there is none
FirstIndex(ps, key) ==
    IF \E i \in 1..Len(ps) : PitchEqual(ps[i], key)
    THEN (CHOOSE i \in 1..Len(ps) :
             PitchEqual(ps[i], key) /\ \A j \in 1..(i - 1) : ~PitchEqual(ps[j], key)) - 1
    ELSE 0 - 1

\* the 0-based position of the first tag whose text is key, -1 when there is none
TagIndex(tones, key) ==
    IF \E i \in 1..Len(tones) : TagText(tones[i]) = key
    THEN (CHOOSE i \in 1..Len(tones) :
             TagText(tones[i]) = key /\ \A j \in 1..(i - 1) : TagText(tones[j]) # key) - 1
    ELSE 0 - 1

\* Voicing.index: a str with a digit is looked up among the chord-tone tags,
\* any other str is turned into a Chroma, and the key is then searched in pitches
VoicingIndex(self, key) ==
    IF key.kind = "str"
    THEN IF \E i \in 1..Len(key.items) : IsDigit(key.items[i])
         THEN LET t == VoicingInvert(self)
              IN  IF t.err # "" THEN [err |-> t.err, idx |-> 0 - 1]
                  ELSE [err |-> "", idx |-> TagIndex(t.tones, key.items)]
         ELSE IF key.items \notin OffsetNames THEN [err |-> "KeyError", idx |-> 0 - 1]
              ELSE [err |-> "",
                    idx |-> FirstIndex(self.pitches, Arg("Chroma", OFFSET_OF(key.items), <<>>))]
    ELSE [err |-> "", idx |-> FirstIndex(self.pitches, key)]

\* a Python list index: negative keys count from the end
ListIndex(len, key) == IF key < 0 THEN key + len ELSE key
ValidIndex(len, key) == ListIndex(len, key) >= 0 /\ ListIndex(len, key) < len

\* Voicing.__getitem__: an int key addresses the position, any other key is
\* resolved by index; ret is the pitch returned, None when Python's None is
VoicingGetItem(self, key) ==
    IF key.kind = "int"
    THEN IF ValidIndex(Len(self.pitches), key.value)
         THEN [err |-> "", ret |-> Some(self.pitches[ListIndex(Len(self.pitches), key.value) + 1])]
         ELSE [err |-> "IndexError", ret |-> None]
    ELSE LET r == VoicingIndex(self, key)
         IN  IF r.err # "" THEN [err |-> r.err, ret |-> None]
             ELSE IF r.idx >= 0 THEN [err |-> "", ret |-> Some(self.pitches[r.idx + 1])]
                  ELSE [err |-> "", ret |-> None]

\* ---------------------------------------------------------------- intervals
\* the inner loop starting at the lower pitch itself (for j in range(i, len))
RECURSIVE ModFromSelf(_, _, _, _)
ModFromSelf(ps, n, i, j) ==
    IF i > Len(ps) - 1 THEN <<>>
    ELSE IF j > Len(ps) THEN ModFromSelf(ps, n, i + 1, i + 1)
    ELSE (IF PitchSub(ps[j], ps[i]) = n THEN <<ps[i]>> ELSE <<>>) \o ModFromSelf(ps, n, i, j + 1)

\* the two loops of Voicing.__mod__ from position (i, j) on, 1-based: a copy of
\* the lower pitch for every pair i < j that is n semitones apart
RECURSIVE ModFrom(_, _, _, _)
ModFrom(ps, n, i, j) ==
    IF i > Len(ps) - 1 THEN <<>>
    ELSE IF j > Len(ps) THEN ModFrom(ps, n, i + 1, i + 2)
    ELSE (IF PitchSub(ps[j], ps[i]) = n THEN <<ps[i]>> ELSE <<>>) \o ModFrom(ps, n, i, j + 1)

\* Voicing.__mod__: a str value is looked up in the name table first
VoicingMod(self, value) ==
    IF value.kind = "str"
    THEN IF value.items \notin OffsetNames THEN [err |-> "KeyError", ret |-> None]
         ELSE [err |-> "", ret |-> Some(ModFrom(self.pitches, OFFSET_OF(value.items), 1, 2))]
    ELSE [err |-> "", ret |-> Some(ModFrom(self.pitches, value.value, 1, 2))]

\* the matrix with one column per higher position only (for j in range(1, len))
\* and no guard on the length
LegacyMatrix(self) ==
    LET ps == self.pitches
    IN  [i \in 1..(Len(ps) - 1) |->
            [c \in 1..(Len(ps) - 1) |-> IF c + 1 > i THEN PitchSub(ps[c + 1], ps[i]) ELSE 0]]

\* Voicing.matrix: one row per pitch but the last, one column per pitch
VoicingMatrix(self) ==
    LET ps == self.pitches
    IN  IF Len(ps) <= 1 THEN <<>>
        ELSE [i \in 1..(Len(ps) - 1) |->
                 [j \in 1..Len(ps) |-> IF j > i THEN PitchSub(ps[j], ps[i]) ELSE 0]]

\* ------------------------------------------------------------------- state
\* root[s]     the _root of the Voicing held by client variable s
\* listOf[s]   the identity of its pitches list, 0 while s holds no Voicing
\* lists[l]    the pitch values stored in list l
\* last        the most recent call: operation, receiver, destination variable,
\*             exception raised and, when last.detail is set, the arguments, the
\*             receiver as it was before the call and the value returned when
\*             that is not a Voicing.  The object machine runs without detail,
\*             the single-call specifications with it.
VARIABLES root, listOf, lists, last

vars == <<root, listOf, lists, last>>

Bound(s) == listOf[s] # 0

\* the Voicing held by s, by value
Content(s) == Val(root[s], lists[listOf[s]])

NoCall(detail) ==
    [detail |-> detail, op |-> "none", recv |-> 0, dst |-> 0, err |-> "", arg |-> NoArg,
     arg2 |-> NoArg, before |-> Val(None, <<>>), flag |-> FALSE, tones |-> <<>>, text |-> <<>>,
     ret |-> None]

Call(op, recv, dst, arg, err, before) ==
    [detail |-> last.detail, op |-> op, recv |-> recv, dst |-> dst, err |-> err,
     arg |-> IF last.detail THEN arg ELSE NoArg,
     arg2 |-> NoArg,
     before |-> IF last.detail THEN before ELSE Val(None, <<>>),
     flag |-> FALSE, tones |-> <<>>, text |-> <<>>, ret |-> None]

\* a list identity no variable other than dst refers to
FreshList(dst) ==
    IF \A s \in Slots \ {dst} : listOf[s] # dst THEN dst
    ELSE CHOOSE l \in ListIds : \A s \in Slots \ {dst} : listOf[s] # l

\* copy.deepcopy(self): the copy bound to dst gets a pitches list of its own
ShareListId(src, dst) == listOf[src]
CopyListId(src, dst) == FreshList(dst)

\* lists no variable refers to any more are dropped
Collect(newListOf, newLists) ==
    [l \in ListIds |-> IF \E s \in Slots : newListOf[s] = l THEN newLists[l] ELSE <<>>]

\* dst is bound to a Voicing with root r whose pitches list l holds ps
Bind(dst, l, r, ps) ==
    /\ root' = [root EXCEPT ![dst] = r]
    /\ listOf' = [listOf EXCEPT ![dst] = l]
    /\ lists' = Collect([listOf EXCEPT ![dst] = l], [lists EXCEPT ![l] = ps])

\* a call that raised, or one that returns no Voicing: no object is created or changed
Failed == UNCHANGED <<root, listOf, lists>>

\* ----------------------------------------------------------------- actions
\* dst = Voicing(pitches, root)
Construct(dst, pitches, rootArg) ==
    LET out == VoicingInit(pitches, rootArg)
    IN  /\ last' = [Call("init", 0, dst, pitches, out.err, Val(None, <<>>))
                      EXCEPT !.arg2 = IF last.detail THEN rootArg ELSE NoArg]
        /\ IF out.err # "" THEN Failed
           ELSE Bind(dst, FreshList(dst), out.root, out.pitches)

\* dst = Voicing.from_csv(text)
FromCsv(dst, text) ==
    LET out == VoicingFromCsv(text)
    IN  /\ last' = [Call("from_csv", 0, dst, NoArg, out.err, Val(None, <<>>))
                      EXCEPT !.text = IF last.detail THEN text ELSE <<>>]
        /\ IF out.err # "" THEN Failed
           ELSE Bind(dst, FreshList(dst), out.root, out.pitches)

\* the common shape of the operator-style transforms: ret = copy.deepcopy(self),
\* ret is edited and returned, the caller binds it to dst
Transform(op, recv, dst, arg, out) ==
    /\ last' = Call(op, recv, dst, arg, out.err, Content(recv))
    /\ IF out.err # "" THEN Failed
       ELSE Bind(dst, CopyListId(recv, dst), out.root, out.pitches)

\* dst = recv + arg
Add(recv, dst, arg) ==
    /\ Bound(recv)
    /\ Transform("add", recv, dst, arg, VoicingAdd(Content(recv), arg))

\* dst = recv - arg
Sub(recv, dst, arg) ==
    /\ Bound(recv)
    /\ Transform("sub", recv, dst, arg, VoicingSub(Content(recv), arg))

\* dst = recv * arg
Mul(recv, dst, arg) ==
    /\ Bound(recv)
    /\ Transform("mul", recv, dst, arg, VoicingMul(Content(recv), arg))

\* dst = recv >> arg
Rshift(recv, dst, arg) ==
    /\ Bound(recv)
    /\ Transform("rshift", recv, dst, arg, VoicingRshift(Content(recv), arg))

\* dst = recv / arg
Truediv(recv, dst, arg) ==
    /\ Bound(recv)
    /\ Transform("truediv", recv, dst, arg, VoicingTruediv(Content(recv), arg))

\* dst = recv << arg
Lshift(recv, dst, arg) ==
    /\ Bound(recv)
    /\ Transform("lshift", recv, dst, arg, VoicingLshift(Content(recv), arg))

\* Voicing.__setitem__ with an integer key: s[key] = Pitch(value), in place
SetItem(s, key, value) ==
    /\ Bound(s)
    /\ LET ps == lists[listOf[s]]
           ok == ValidIndex(Len(ps), key)
       IN  /\ last' = Call("setitem", s, s, Arg("Pitch", value, <<key>>),
                            IF ok THEN "" ELSE "IndexError", Content(s))
           /\ IF ok
              THEN /\ lists' = [lists EXCEPT ![listOf[s]] =
                                   [ps EXCEPT ![ListIndex(Len(ps), key) + 1] = value]]
                   /\ UNCHANGED <<root, listOf>>
              ELSE Failed

\* Voicing.__delitem__ with an integer key: del s[key], in place
DelItem(s, key) ==
    /\ Bound(s)
    /\ LET ps == lists[listOf[s]]
           ok == ValidIndex(Len(ps), key)
           i == ListIndex(Len(ps), key) + 1
       IN  /\ last' = Call("delitem", s, s, Arg("int", key, <<>>),
                            IF ok THEN "" ELSE "IndexError", Content(s))
           /\ IF ok
              THEN /\ lists' = [lists EXCEPT ![listOf[s]] =
                                   SubSeq(ps, 1, i - 1) \o SubSeq(ps, i + 1, Len(ps))]
                   /\ UNCHANGED <<root, listOf>>
              ELSE Failed

\* recv == other, other a Voicing
Eq(recv, other) ==
    /\ Bound(recv)
    /\ LET out == VoicingEq(Content(recv), Val(other.root, other.items))
       IN  last' = [Call("eq", recv, 0, other, out.err, Content(recv)) EXCEPT !.flag = out.flag]
    /\ Failed

\* (recv * arg) == recv: the receiver compared with its own transposition
MulEq(recv, arg) ==
    /\ Bound(recv)
    /\ LET up == VoicingMul(Content(recv), arg)
           out == IF up.err # "" THEN [err |-> up.err, flag |-> FALSE]
                  ELSE VoicingEq(Val(up.root, up.pitches), Content(recv))
       IN  last' = [Call("mul_eq", recv, 0, arg, out.err, Content(recv)) EXCEPT !.flag = out.flag]
    /\ Failed

\* ~recv
Invert(recv) ==
    /\ Bound(recv)
    /\ LET out == VoicingInvert(Content(recv))
       IN  last' = [Call("invert", recv, 0, NoArg, out.err, Content(recv)) EXCEPT !.tones = out.tones]
    /\ Failed

\* recv.csv
Csv(recv) ==
    /\ Bound(recv)
    /\ LET out == VoicingCsv(Content(recv))
       IN  last' = [Call("csv", recv, 0, NoArg, out.err, Content(recv)) EXCEPT !.text = out.text]
    /\ Failed

\* dst = Voicing.from_csv(recv.csv)
CsvRoundTrip(recv, dst) ==
    /\ Bound(recv)
    /\ LET text == VoicingCsv(Content(recv))
           out == IF text.err # "" THEN Raise(text.err) ELSE VoicingFromCsv(text.text)
       IN  /\ last' = [Call("csv_from_csv", recv, dst, NoArg, out.err, Content(recv))
                         EXCEPT !.text = text.text]
           /\ IF out.err # "" THEN Failed
              ELSE Bind(dst, FreshList(dst), out.root, out.pitches)

\* recv.index(key)
Index(recv, key) ==
    /\ Bound(recv)
    /\ LET out == VoicingIndex(Content(recv), key)
       IN  last' = [Call("index", recv, 0, key, out.err, Content(recv))
                       EXCEPT !.ret = IF out.err = "" THEN Some(out.idx) ELSE None]
    /\ Failed

\* recv[key]
GetItem(recv, key) ==
    /\ Bound(recv)
    /\ LET out == VoicingGetItem(Content(recv), key)
       IN  last' = [Call("getitem", recv, 0, key, out.err, Content(recv)) EXCEPT !.ret = out.ret]
    /\ Failed

\* Voicing.__setitem__ with any key: s[key] = Pitch(value), in place
SetKey(s, key, value) ==
    IF key.kind = "int" THEN SetItem(s, key.value, value)
    ELSE /\ Bound(s)
         /\ LET ps == lists[listOf[s]]
                out == VoicingIndex(Content(s), key)
            IN  /\ last' = [Call("setitem", s, s, key, out.err, Content(s))
                               EXCEPT !.arg2 = Arg("Pitch", value, <<>>)]
                /\ IF out.err = "" /\ out.idx >= 0
                   THEN /\ lists' = [lists EXCEPT ![listOf[s]] = [ps EXCEPT ![out.idx + 1] = value]]
                        /\ UNCHANGED <<root, listOf>>
                   ELSE Failed

\* Voicing.__delitem__ with any key: del s[key], in place
DelKey(s, key) ==
    IF key.kind = "int" THEN DelItem(s, key.value)
    ELSE /\ Bound(s)
         /\ LET ps == lists[listOf[s]]
                out == VoicingIndex(Content(s), key)
            IN  /\ last' = Call("delitem", s, s, key, out.err, Content(s))
                /\ IF out.err = "" /\ out.idx >= 0
                   THEN /\ lists' = [lists EXCEPT ![listOf[s]] =
                                        SubSeq(ps, 1, out.idx) \o SubSeq(ps, out.idx + 2, Len(ps))]
                        /\ UNCHANGED <<root, listOf>>
                   ELSE Failed

\* recv % value
Mod(recv, value) ==
    /\ Bound(recv)
    /\ LET out == VoicingMod(Content(recv), value)
       IN  last' = [Call("mod", recv, 0, value, out.err, Content(recv)) EXCEPT !.ret = out.ret]
    /\ Failed

\* recv.matrix()
Matrix(recv) ==
    /\ Bound(recv)
    /\ last' = [Call("matrix", recv, 0, NoArg, "", Content(recv))
                  EXCEPT !.ret = Some(VoicingMatrix(Content(recv)))]
    /\ Failed

\* self == other for the Pitch self drawn at the start
PitchEqCall ==
    /\ last.op = "none" /\ last.arg2.kind = "Pitch"
    /\ last' = [last EXCEPT !.op = "pitch_eq", !.flag = PitchEqual(last.arg2.value, last.arg)]
    /\ Failed

\* Chroma(self) == other for the Pitch or Chroma self drawn at the start
ChromaEqCall ==
    /\ last.op = "none" /\ last.arg2.kind \in {"Pitch", "Chroma"}
    /\ LET out == ChromaEqual(ChromaInit(last.arg2.value), last.arg)
       IN  last' = [last EXCEPT !.op = "chroma_eq", !.err = out.err, !.flag = out.eq]
    /\ Failed

\* up = self * other for the Chroma self and the int or Interval other drawn
ChromaUp ==
    /\ last.op = "none" /\ last.arg2.kind = "Chroma" /\ last.arg.kind \in {"int", "Interval"}
    /\ last' = [last EXCEPT !.op = "up", !.ret = Some(ChromaAdd(last.arg2.value, last.arg.value))]
    /\ Failed

\* down = up / other, then down == self
ChromaDown ==
    /\ last.op = "up"
    /\ LET down == ChromaSub(last.ret[1], last.arg.value)
       IN  last' = [last EXCEPT !.op = "up_down", !.ret = Some(down),
                                !.flag = ChromaEqual(down, last.arg2).eq]
    /\ Failed

\* Chroma(other) for the operand drawn at the start
ChromaNew ==
    /\ last.op = "none"
    /\ LET value == last.arg
           out == CASE value.kind = "int" -> [err |-> "", ret |-> Some(ChromaInit(value.value))]
                    [] value.kind = "str" ->
                          IF value.items \notin OffsetNames THEN [err |-> "KeyError", ret |-> None]
                          ELSE [err |-> "", ret |-> Some(OFFSET_OF(value.items))]
                    [] value.kind = "Chroma" -> [err |-> "", ret |-> Some(value.value)]
                    [] value.kind = "Pitch" -> [err |-> "", ret |-> Some(PitchOffset(value.value))]
                    [] OTHER -> [err |-> "TypeError", ret |-> None]
       IN  last' = [last EXCEPT !.op = "chroma", !.arg2 = NoArg, !.err = out.err, !.ret = out.ret]
    /\ Failed

\* c = c + d for the Chroma c built or moved last
ChromaAddCall ==
    /\ last.op \in {"chroma", "shift"} /\ last.err = ""
    /\ \E d \in (0 - Octave - 2)..(Octave + 2) :
          last' = [last EXCEPT !.op = "shift", !.ret = Some(ChromaAdd(last.ret[1], d))]
    /\ Failed

\* c = c - value for the Chroma c built or moved last: another Chroma when
\* value is a distance, the int difference when value is a Chroma
ChromaSubCall ==
    /\ last.op \in {"chroma", "shift"} /\ last.err = ""
    /\ \/ \E d \in (0 - Octave - 2)..(Octave + 2) :
             last' = [last EXCEPT !.op = "shift", !.ret = Some(ChromaSub(last.ret[1], d))]
       \/ \E c \in 0..11 :
             last' = [last EXCEPT !.op = "minus", !.ret = Some(ChromaDiff(last.ret[1], c))]
    /\ Failed

\* Pitch(other, octave) for the operand drawn at the start; the octave passed
\* is noted in the root field of the recorded argument
PitchNew ==
    /\ last.op = "none"
    /\ \E octave \in {0 - 2, 0 - 1, 0, 4, 5} :
          LET value == last.arg
              out == CASE value.kind = "int" -> [err |-> "", ret |-> Some(value.value)]
                       [] value.kind = "str" ->
                             IF value.items \notin OffsetNames THEN [err |-> "KeyError", ret |-> None]
                             ELSE [err |-> "", ret |-> Some(OFFSET_OF(value.items) + (octave + 1) * 12)]
                       [] value.kind = "Chroma" ->
                             [err |-> "", ret |-> Some(value.value + (octave + 1) * 12)]
                       [] value.kind = "Pitch" -> [err |-> "", ret |-> Some(value.value)]
                       [] OTHER -> [err |-> "TypeError", ret |-> None]
          IN  last' = [last EXCEPT !.op = "pitch", !.arg = [value EXCEPT !.root = Some(octave)],
                                   !.arg2 = NoArg, !.err = out.err, !.ret = out.ret]
    /\ Failed

\* p.offset = value for the Pitch p built last
PitchOffsetSet ==
    /\ last.op = "pitch" /\ last.err = ""
    /\ \E value \in (0 - 1)..12 :
          last' = [last EXCEPT !.op = "offset_set",
                               !.arg2 = Arg("Pitch", last.ret[1], <<value>>),
                               !.ret = Some((PitchOctave(last.ret[1]) + 1) * 12 + value)]
    /\ Failed

\* p.octave = value for the Pitch p built last
PitchOctaveSet ==
    /\ last.op = "pitch" /\ last.err = ""
    /\ \E value \in {0 - 2, 0 - 1, 0, 4, 5} :
          last' = [last EXCEPT !.op = "octave_set",
                               !.arg2 = Arg("Pitch", last.ret[1], <<value>>),
                               !.ret = Some(PitchOffset(last.ret[1]) + (value + 1) * 12)]
    /\ Failed

\* up = self * other for the Pitch self and the operand drawn at the start: a
\* Pitch operand adds its value, anything else the distance of Interval(other)
PitchMulCall ==
    /\ last.op = "none" /\ last.arg2.kind = "Pitch"
    /\ LET v == last.arg2.value
           other == last.arg
           out == CASE other.kind = "Pitch" -> [err |-> "", ret |-> Some(v + other.value)]
                    [] other.kind \in {"int", "Interval", "Chroma"} ->
                          [err |-> "", ret |-> Some(PitchMul(v, other.value))]
                    [] other.kind = "str" ->
                          IF other.items \notin OffsetNames THEN [err |-> "KeyError", ret |-> None]
                          ELSE [err |-> "", ret |-> Some(PitchMul(v, OFFSET_OF(other.items)))]
                    [] OTHER -> [err |-> "TypeError", ret |-> None]
       IN  last' = [last EXCEPT !.op = "pitch_up", !.err = out.err, !.ret = out.ret]
    /\ Failed

\* down = up / other for the Pitch moved up last, by the same operand
PitchTruedivCall ==
    /\ last.op = "pitch_up" /\ last.err = ""
    /\ LET v == last.ret[1]
           other == last.arg
       IN  last' = [last EXCEPT !.op = "pitch_up_down",
                       !.ret = Some(CASE other.kind = "Pitch" -> v - other.value
                                      [] other.kind = "str" -> PitchTruediv(v, OFFSET_OF(other.items))
                                      [] OTHER -> PitchTruediv(v, other.value))]
    /\ Failed

\* (self < other, self == other, self > other) for the two Pitches drawn
PitchCompare ==
    /\ last.op = "none" /\ last.arg2.kind = "Pitch" /\ last.arg.kind = "Pitch"
    /\ last' = [last EXCEPT !.op = "pitch_cmp",
                            !.ret = Some(<<PitchLt(last.arg2.value, last.arg.value),
                                           PitchEqual(last.arg2.value, last.arg),
                                           PitchGt(last.arg2.value, last.arg.value)>>)]
    /\ Failed

\* hash(recv): the hash of str(recv), noted as the string hashed
Hash(recv) ==
    /\ Bound(recv)
    /\ last' = [Call("hash", recv, 0, NoArg, "", Content(recv))
                  EXCEPT !.text = VoicingStr(Content(recv))]
    /\ Failed

\* dst = recv // target
Floordiv(recv, dst, target) ==
    /\ Bound(recv)
    /\ Transform("floordiv", recv, dst, target, VoicingFloordiv(Content(recv), target))

\* ------------------------------------------------------ the object machine
\* Client variables are bound to voicings built by any sequence of calls; the
\* pitch lists stay within MaxLen and the pitches within Values.
PitchLists == SeqsUpTo(Values, MaxLen)
ListArgs == {Arg("list", 0, ps) : ps \in PitchLists}
PitchArgs == {Arg("Pitch", v, <<>>) : v \in Values}
VoicingArgs == {VoicingArg(t, root[t], lists[listOf[t]]) : t \in {s \in Slots : Bound(s)}}
RootArgs == {Arg("Chroma", 0, <<>>)}
ShiftArgs == {Arg("int", k, <<>>) : k \in Shifts} \cup {Arg("Chroma", 0, <<>>)}
Keys == (0 - MaxLen)..(MaxLen - 1)
CsvTexts == {VoicingCsv(Val(Some(0), ps)).text : ps \in PitchLists}

Fits(recv, arg) == Bound(recv) /\ Len(lists[listOf[recv]]) + Len(arg.items) <= MaxLen
InRange(out) == \A i \in 1..Len(out.pitches) : out.pitches[i] \in Values

Init ==
    /\ root = [s \in Slots |-> None]
    /\ listOf = [s \in Slots |-> 0]
    /\ lists = [l \in ListIds |-> <<>>]
    /\ last = NoCall(FALSE)

Next ==
    \/ \E dst \in Slots, ps \in ListArgs, r \in RootArgs : Construct(dst, ps, r)
    \/ \E dst \in Slots, text \in CsvTexts : FromCsv(dst, text)
    \/ \E recv, dst \in Slots, arg \in PitchArgs \cup ListArgs \cup VoicingArgs :
          Fits(recv, arg) /\ Add(recv, dst, arg)
    \/ \E recv, dst \in Slots, arg \in PitchArgs \cup ListArgs \cup VoicingArgs :
          Sub(recv, dst, arg)
    \/ \E recv, dst \in Slots, arg \in ShiftArgs :
          Bound(recv) /\ InRange(VoicingMul(Content(recv), arg)) /\ Mul(recv, dst, arg)
    \/ \E recv, dst \in Slots, arg \in ShiftArgs :
          Bound(recv) /\ InRange(VoicingRshift(Content(recv), arg)) /\ Rshift(recv, dst, arg)
    \/ \E recv, dst \in Slots, arg \in ShiftArgs :
          Bound(recv) /\ InRange(VoicingTruediv(Content(recv), arg)) /\ Truediv(recv, dst, arg)
    \/ \E recv, dst \in Slots, arg \in ShiftArgs :
          Bound(recv) /\ InRange(VoicingLshift(Content(recv), arg)) /\ Lshift(recv, dst, arg)
    \/ \E s \in Slots, key \in Keys, v \in Values : SetItem(s, key, v)
    \/ \E s \in Slots, key \in Keys : DelItem(s, key)

Spec == Init /\ [][Next]_vars

\* ------------------------------------------------- single-call checking
\* Variable 1 holds a voicing the constructor can build (any root, any order
\* of pitches); one call is made on it, its result bound to variable 2.
CallLen == 2
CallSpan == 3
CallValues == (BaseValue - 1)..(BaseValue - 1 + CallSpan)
CallRoots == {None, Some(0), Some(7)}
CallLists == SeqsUpTo(CallValues, CallLen)
CallShifts == {0 - Octave, 0 - 1, 0, 1, 7, Octave}

\* the call of tests/test_basic.py and examples/basic_usage.py:
\* Voicing(C(), [C(4), E(4), G(4)]), root first and pitch list second
TestRoot == Arg("Chroma", 0, <<>>)
TestPitches == Arg("list", 0, <<60, 64, 67>>)

CallPitchesArgs == {Arg("list", 0, ps) : ps \in CallLists}
CallRootArgs ==
    {NoArg, Arg("int", 19, <<>>), Arg("Chroma", 7, <<>>), Arg("Pitch", 67, <<>>)}
CallAddArgs ==
    {Arg("Pitch", v, <<>>) : v \in CallValues}
    \cup {Arg("list", 0, ps) : ps \in CallLists}
    \cup {VoicingArg(0, None, ps) : ps \in CallLists}
    \cup {Arg("int", 60, <<>>)}
CallShiftArgs ==
    {Arg("int", k, <<>>) : k \in CallShifts}
        \cup {Arg("Chroma", 7, <<>>), Arg("Interval", Octave + 2, <<>>), Arg("Pitch", 60, <<>>)}
CallOthers == {VoicingArg(0, r, ps) : r \in CallRoots, ps \in CallLists}
CallKeys == (0 - CallLen - 1)..CallLen

Holding(r, ps) ==
    /\ root = [s \in Slots |-> IF s = 1 THEN r ELSE None]
    /\ listOf = [s \in Slots |-> IF s = 1 THEN 1 ELSE 0]
    /\ lists = [l \in ListIds |-> IF l = 1 THEN ps ELSE <<>>]
    /\ last = NoCall(TRUE)

InitCall == \E r \in CallRoots, ps \in CallLists : Holding(r, ps)

\* no call has been made since the voicing in variable 1 was built
Idle == last.op = "none"

NextCall ==
    \/ Idle /\ \E ps \in CallPitchesArgs \cup {TestPitches}, r \in CallRootArgs \cup {TestRoot} :
                  Construct(2, ps, r)
    \/ Idle /\ Construct(2, TestRoot, TestPitches)
    \/ Idle /\ \E arg \in CallAddArgs
                           \cup UNION {{Arg("list", k, ps) : k \in 1..Len(ps)} : ps \in CallLists}
                           \cup {Arg("str", 0, <<"G">>), Arg("Chroma", 7, <<>>), NoArg} :
                  Add(1, 2, arg)
    \/ Idle /\ \E arg \in CallAddArgs : Sub(1, 2, arg)
    \/ Idle /\ \E arg \in CallShiftArgs : Mul(1, 2, arg)
    \/ Idle /\ \E arg \in CallShiftArgs : Rshift(1, 2, arg)
    \/ Idle /\ \E arg \in CallShiftArgs : Truediv(1, 2, arg)
    \/ Idle /\ \E arg \in CallShiftArgs : Lshift(1, 2, arg)
    \/ Idle /\ \E key \in CallKeys, v \in CallValues : SetItem(1, key, v)
    \/ Idle /\ \E key \in CallKeys : DelItem(1, key)
    \/ Idle /\ \E other \in CallOthers : Eq(1, other)
    \/ Idle /\ Hash(1)
    \/ Idle /\ \E target \in {Arg("int", t, <<>>) : t \in {0 - 5, BaseValue - Octave, BaseValue,
                                                            BaseValue + Octave + 1}}
                              \cup {Arg("Pitch", BaseValue - 1, <<>>), Arg("Chroma", 7, <<>>),
                                    Arg("str", 0, <<"G">>), Arg("Interval", 7, <<>>)} :
                  Floordiv(1, 2, target)
    \/ Idle /\ \E arg \in CallShiftArgs : MulEq(1, arg)

SpecCall == InitCall /\ [][NextCall]_vars

\* ------------------------------------------------------- copy checking
\* Variable 1 holds a voicing; one transform of it, with a pitch, a list or the
\* voicing itself as argument, is bound to variable 2, and the result is then
\* edited in place once, at its first or last index.
EditAddArgs ==
    {Arg("Pitch", v, <<>>) : v \in CallValues}
    \cup {Arg("list", 0, ps) : ps \in CallLists}
    \cup {VoicingArg(1, root[1], lists[listOf[1]])}
EditKeys == {0, 0 - 1}
Returned == last.op \in {"add", "sub", "mul", "rshift", "truediv", "lshift"} /\ last.err = ""

NextEdit ==
    \/ Idle /\ \E arg \in EditAddArgs : Add(1, 2, arg)
    \/ Idle /\ \E arg \in EditAddArgs : Sub(1, 2, arg)
    \/ Idle /\ \E arg \in CallShiftArgs : Mul(1, 2, arg)
    \/ Idle /\ \E arg \in CallShiftArgs : Rshift(1, 2, arg)
    \/ Idle /\ \E arg \in CallShiftArgs : Truediv(1, 2, arg)
    \/ Idle /\ \E arg \in CallShiftArgs : Lshift(1, 2, arg)
    \/ Returned /\ \E key \in EditKeys : SetItem(2, key, BaseValue)
    \/ Returned /\ \E key \in EditKeys : DelItem(2, key)

SpecEdit == InitCall /\ [][NextEdit]_vars

\* ---------------------------------------------------- keyed-access checking
\* Variable 1 holds a voicing of up to KeyLen pitches around middle C, one
\* octave higher included; one lookup, read, assignment or deletion by key is
\* made, the key a Pitch, an int, a Chroma, a pitch-class name or a name
\* followed by an octave.
KeyLen == 2
KeySpan == 1
KeyValues == (BaseValue - 1)..(BaseValue + KeySpan) \cup {BaseValue + Octave}
\* pitch values asked for: those a voicing may hold and E4, which none holds
AskedValues == KeyValues \cup {BaseValue + 4}
\* name+octave strings: the string form of every asked value, and C#4
PitchStrings == {PitchStr(v) : v \in AskedValues} \cup {<<"C", "#", "4">>}
\* str keys: name+octave strings, pitch-class names, chord-tone tags and 'X'
StrKeys ==
    {Arg("str", 0, t) :
        t \in PitchStrings \cup {<<"C">>, <<"C", "#">>, <<"D", "b">>, <<"E">>, <<"B">>}
                 \cup {<<"1">>, <<"b", "9">>, <<"X">>}}
ObjectKeys ==
    {Arg("Pitch", v, <<>>) : v \in AskedValues}
    \cup {Arg("Chroma", PitchOffset(v), <<>>) : v \in AskedValues}
IndexKeys == StrKeys \cup ObjectKeys \cup {Arg("int", v, <<>>) : v \in AskedValues}
ItemKeys ==
    StrKeys \cup ObjectKeys
    \cup {Arg("int", k, <<>>) : k \in ((0 - KeyLen - 1)..KeyLen) \cup {BaseValue}}

InitKey == \E r \in {None, Some(0), Some(1)}, ps \in SeqsUpTo(KeyValues, KeyLen) : Holding(r, ps)

NextKey ==
    \/ Idle /\ \E key \in IndexKeys : Index(1, key)
    \/ Idle /\ \E key \in ItemKeys : GetItem(1, key)
    \/ Idle /\ \E key \in ItemKeys : SetKey(1, key, BaseValue + 2 * Octave)
    \/ Idle /\ \E key \in ItemKeys : DelKey(1, key)

SpecKey == InitKey /\ [][NextKey]_vars

\* ---------------------------------------------------- interval checking
\* Variable 1 holds a voicing with up to PairLen pitches, in any order and with
\* repeats, drawn from C4, E4, G4 and C5; its intervals are asked for once.
PairLen == 4
PairValues == {BaseValue, BaseValue + 4, BaseValue + 7, BaseValue + Octave}
\* the distances asked for: unison, thirds, fourth, fifth (up and down), octave
PairSteps == {0, 3, 4, 5, 7, 0 - 7, Octave}

InitPairs == \E r \in {None, Some(0)}, ps \in SeqsUpTo(PairValues, PairLen) : Holding(r, ps)

\* the value of % is one of the distances or a name, known ('G') or not ('X')
NextPairs ==
    \/ Idle /\ \E value \in {Arg("int", n, <<>>) : n \in PairSteps}
                               \cup {Arg("str", 0, <<"G">>), Arg("str", 0, <<"X">>)} :
                  Mod(1, value)
    \/ Idle /\ Matrix(1)

SpecPairs == InitPairs /\ [][NextPairs]_vars

\* ------------------------------------------------------- value checking
\* A Pitch or a Chroma and an operand are drawn; they are compared once, or
\* the Chroma is moved up and then down by the operand.
NoteSpan == 14
StepSpan == 14
NoteValues == (BaseValue - 1)..(BaseValue - 1 + NoteSpan)
Steps == (0 - StepSpan)..StepSpan

\* self is a Pitch or a Chroma; other is an Interval, a name (known or not), a
\* Chroma, an int or a Pitch
InitValue ==
    \E self \in {Arg("Pitch", v, <<>>) : v \in NoteValues}
                   \cup {Arg("Chroma", c, <<>>) : c \in 0..11},
       other \in {Arg("Interval", d, <<>>) : d \in Steps}
                   \cup {Arg("str", 0, n) : n \in OffsetNames \cup {<<"X">>}}
                   \cup {Arg("Chroma", c, <<>>) : c \in 0..11}
                   \cup {Arg("int", n, <<>>) : n \in Steps \cup {BaseValue}}
                   \cup {Arg("Pitch", v, <<>>) : v \in NoteValues} :
        /\ root = [s \in Slots |-> None]
        /\ listOf = [s \in Slots |-> 0]
        /\ lists = [l \in ListIds |-> <<>>]
        /\ last = [NoCall(TRUE) EXCEPT !.arg2 = self, !.arg = other]

NextValue ==
    \/ PitchEqCall
    \/ ChromaEqCall
    \/ ChromaUp
    \/ ChromaDown
    \/ ChromaNew
    \/ ChromaAddCall
    \/ ChromaSubCall
    \/ PitchNew
    \/ PitchOffsetSet
    \/ PitchOctaveSet
    \/ PitchMulCall
    \/ PitchTruedivCall
    \/ PitchCompare

SpecValue == InitValue /\ [][NextValue]_vars

\* ------------------------------------------------- classifier checking
\* Variable 1 holds a voicing with up to ToneLen pitches, in any order, within
\* ToneSpan semitones above middle C; it is classified once.
ToneLen == 4
ToneSpan == 10
ToneValues == BaseValue..(BaseValue + ToneSpan)
\* the roots C, Db and Eb: with these every row and every branch of the
\* classifier's table is taken by some voicing
ToneRoots == {Some(0), Some(1), Some(3)}
ToneLists == SeqsUpTo(ToneValues, ToneLen)

InitTones == \E r \in ToneRoots, ps \in ToneLists : Holding(r, ps)

NextTones == Idle /\ Invert(1)

SpecTones == InitTones /\ [][NextTones]_vars

\* ----------------------------------------------- transposed classification
\* Variable 1 holds a voicing with a root and up to MovedLen pitches; it is
\* moved up by a number of semitones into variable 2, which is then classified.
MovedLen == 3

InitMoved == \E r \in ToneRoots, ps \in SeqsUpTo(ToneValues, MovedLen) : Holding(r, ps)

NextMoved ==
    \/ Idle /\ \E k \in {0 - Octave - 1, 0 - Octave, 0 - 1, 1, 5, Octave} :
                  Mul(1, 2, Arg("int", k, <<>>))
    \/ last.op = "mul" /\ last.err = "" /\ Invert(2)

SpecMoved == InitMoved /\ [][NextMoved]_vars

\* ------------------------------------------------------- csv checking
\* Variable 1 holds a voicing with any root and pitches of one, two and three
\* digits, negative ones included; it is serialized, or serialized and parsed
\* back into variable 2, or a csv text is parsed into variable 2.
CsvLen == 2
CsvValues == {0 - 120, 0 - 1, 0, 9, 10, 60, 127}
CsvRoots == {None} \cup {Some(o) : o \in 0..(Octave - 1)}
CsvLists == SeqsUpTo(CsvValues, CsvLen)
CsvInputs ==
    {<<"1", "2">>, <<"-", "1", ",", "6", "0">>, <<"7", ",", "6", "7", ",", "6", "0">>,
     <<"0", ",">>, <<>>, <<"0", ",", "-">>}

InitCsv == \E r \in CsvRoots, ps \in CsvLists : Holding(r, ps)

NextCsv ==
    \/ Idle /\ Csv(1)
    \/ Idle /\ CsvRoundTrip(1, 2)
    \/ Idle /\ \E text \in CsvInputs : FromCsv(2, text)

SpecCsv == InitCsv /\ [][NextCsv]_vars

\* ------------------------------------------------------------------ claims
\* the tag the decision table of C1 gives pitch i of the pitch values ps, for
\* the offsets offs from the root
TableTone(i, ps, offs) ==
    LET R == ps[1] - offs[1]
        above == ps[i] - R > 12
        has(S) == \E j \in 1..Len(offs) : offs[j] \in S
        o == offs[i]
    IN  CASE o = 0 -> "1"
          [] o = 1 -> "b9"
          [] o = 2 /\ above -> IF has({10, 11}) THEN "9" ELSE "add9"
          [] o = 2 /\ ~above -> IF has({3, 4}) THEN "add2" ELSE "sus2"
          [] o = 3 -> IF has({4}) THEN "#9" ELSE "min3"
          [] o = 4 -> "maj3"
          [] o = 5 /\ above -> IF has({10, 11}) THEN "11" ELSE "add11"
          [] o = 5 /\ ~above -> IF has({3, 4}) THEN "add4" ELSE "sus4"
          [] o = 6 /\ has({4, 7, 9}) -> "#11"
          [] o = 6 /\ ~has({4, 7, 9}) /\ has({3, 5}) -> "b5"
          [] o = 6 /\ ~has({4, 7, 9}) /\ ~has({3, 5}) -> IF above THEN "#11" ELSE "b5"
          [] o = 7 -> "5"
          [] o = 8 -> IF has({1, 3, 5, 6, 7, 9, 10}) THEN "b13" ELSE "#5"
          [] o = 9 /\ above -> "13"
          [] o = 9 /\ ~above ->
                IF has({0}) /\ has({3}) /\ has({6}) /\ ~has({10, 11}) THEN "dim7" ELSE "6"
          [] o = 10 -> IF has({4}) THEN "dom7" ELSE "min7"
          [] o = 11 -> "maj7"

\* C1: for a voicing with a root, ~voicing returns one tag per pitch, in pitch
\* order, and tag i is the one the decision table gives for
\* offsets[i] = (pitches[i].value - root.offset) mod 12; an empty voicing
\* gives an empty list.
C1_DecisionTable ==
    /\ (last.op = "invert" /\ last.before.pitches = <<>>)
          => (last.err = "" /\ last.tones = <<>>)
    /\ (last.op = "invert" /\ last.before.root # None)
          => LET ps == last.before.pitches
                 offs == [i \in 1..Len(ps) |-> (ps[i] - last.before.root[1]) % 12]
             IN  /\ last.err = ""
                 /\ Len(last.tones) = Len(ps)
                 /\ \A i \in 1..Len(ps) : last.tones[i] = TableTone(i, ps, offs)

\* C1 witness: a four-pitch voicing whose root is not C was classified and one
\* pitch was tagged dom7, another one 9
C1_Witness ==
    /\ last.op = "invert" /\ last.err = ""
    /\ Len(last.tones) = ToneLen
    /\ last.before.root \notin {None, Some(0)}
    /\ \E i, j \in 1..Len(last.tones) : last.tones[i] = "dom7" /\ last.tones[j] = "9"

\* C2: root C with pitches 60, 64, 67 classifies as 1, maj3, 5 and root C with
\* pitches 60, 64, 67, 70 as 1, maj3, 5, dom7.
C2_TriadAndDominantSeventh ==
    /\ (last.op = "invert" /\ last.before = Val(Some(0), <<60, 64, 67>>))
          => last.tones = <<"1", "maj3", "5">>
    /\ (last.op = "invert" /\ last.before = Val(Some(0), <<60, 64, 67, 70>>))
          => last.tones = <<"1", "maj3", "5", "dom7">>

\* C2 witness: the dominant seventh chord on C was classified
C2_Witness == last.op = "invert" /\ last.before = Val(Some(0), <<60, 64, 67, 70>>)

IsSorted(ps) == \A i \in 1..(Len(ps) - 1) : ps[i] <= ps[i + 1]

\* C4: in every state reachable by construction, CSV parse, add, remove,
\* transposition, set at index and delete at index, the pitches of every
\* voicing are in ascending order by value.
C4_AlwaysSorted == \A s \in Slots : Bound(s) => IsSorted(lists[listOf[s]])

\* C6: a transform (+, -, *, >>, /, <<) bound to another variable leaves the
\* receiver's and the argument's root and pitches as they were, and an in-place
\* edit of the result (set or delete at index) does not change the receiver:
\* every step leaves the voicing of every variable other than the one it
\* binds or edits unchanged.
C6_TransformsCopy ==
    [][\A s \in Slots :
          (Bound(s) /\ s # last'.dst)
            => (Bound(s)' /\ root'[s] = root[s] /\ lists'[listOf'[s]] = lists[listOf[s]])]_vars

\* C6 witness: the result of a transform was edited in place and now differs
\* from what the transform returned, with the receiver still bound
C6_Witness ==
    /\ last.op \in {"setitem", "delitem"} /\ last.err = "" /\ last.recv = 2
    /\ Bound(1) /\ listOf[1] # listOf[2]
    /\ lists[listOf[2]] # last.before.pitches
    /\ lists[listOf[1]] # <<>>

\* the number of pitches of ps with value v
Count(ps, v) == Cardinality({i \in 1..Len(ps) : ps[i] = v})
SameBag(ps, qs) ==
    \A v \in {ps[i] : i \in 1..Len(ps)} \cup {qs[i] : i \in 1..Len(qs)} : Count(ps, v) = Count(qs, v)

\* C3: the call of the tests and the example, Voicing(C(), [C(4), E(4), G(4)]),
\* succeeds and yields a voicing of length 3 whose root offset is 0.
C3_PositionalConstruction ==
    (last.op = "init" /\ last.arg = TestRoot /\ last.arg2 = TestPitches)
        => /\ last.err = ""
           /\ Bound(last.dst)
           /\ Len(lists[listOf[last.dst]]) = 3
           /\ root[last.dst] = Some(0)

\* the pitches left when each pitch of items that is present is removed once and
\* each absent one is ignored
RECURSIVE RemoveEach(_, _)
RemoveEach(ps, items) ==
    IF items = <<>> THEN ps
    ELSE RemoveEach(IF \E i \in 1..Len(ps) : ps[i] = Head(items)
                    THEN LET k == CHOOSE i \in 1..Len(ps) :
                                     ps[i] = Head(items) /\ \A j \in 1..(i - 1) : ps[j] # Head(items)
                         IN  [i \in 1..(Len(ps) - 1) |-> IF i < k THEN ps[i] ELSE ps[i + 1]]
                    ELSE ps,
                    Tail(items))

\* C5: remove (v - x) with a Pitch, a list of Pitches (duplicates and absent
\* elements allowed) or a Voicing never fails; it returns a new voicing with the
\* receiver's root in which each pitch of x that was present has been removed
\* and absent ones are ignored.
C5_RemoveNeverFails ==
    (last.op = "sub" /\ last.arg.kind \in {"Pitch", "list", "Voicing"})
        => /\ last.err = ""
           /\ Bound(last.dst)
           /\ root[last.dst] = last.before.root
           /\ lists[listOf[last.dst]] =
                 RemoveEach(last.before.pitches,
                            IF last.arg.kind = "Pitch" THEN <<last.arg.value>> ELSE last.arg.items)

\* a[i] - (a[1] - b[1]) = b[i] at every index
SameShape(a, b) == \A i \in 1..Len(a) : a[i] - (a[1] - b[1]) = b[i]

\* C7: a == b never holds for different lengths; for equal non-zero lengths it
\* holds iff a's pitches shifted by the difference of the two lowest pitches are
\* b's pitches, whatever the roots; two empty voicings are equal iff their
\* roots match.
C7_EqualsIsSameShape ==
    (last.op = "eq")
        => LET a == last.before.pitches
               b == last.arg.items
           IN  /\ last.err = ""
               /\ Len(a) # Len(b) => ~last.flag
               /\ (Len(a) = Len(b) /\ Len(a) > 0) => (last.flag <=> SameShape(a, b))
               /\ (Len(a) = 0 /\ Len(b) = 0) => (last.flag <=> last.before.root = last.arg.root)

\* C8 as stated: for a non-empty voicing V and an amount k # 0,
\* (V transposed up by k) == V is false.
C8_TransposedNotEqual ==
    (last.op = "mul_eq" /\ last.before.pitches # <<>> /\ last.arg.kind = "int" /\ last.arg.value # 0)
        => ~last.flag

\* C8 amended: for a non-empty voicing V with a root and any amount k (zero
\* included), (V transposed up by k) == V is true; when V has no root the
\* transposition raises TypeError and nothing is compared.
C8_TransposedEqual ==
    (last.op = "mul_eq" /\ last.before.pitches # <<>> /\ last.arg.kind \in {"int", "Chroma"})
        => IF last.before.root = None
           THEN last.err = "TypeError"
           ELSE last.err = "" /\ last.flag

\* C8 witness: a rooted voicing of two pitches compared with itself a fifth up
C8_Witness ==
    /\ last.op = "mul_eq" /\ last.arg = Arg("int", 7, <<>>)
    /\ Len(last.before.pitches) = 2 /\ last.before.root # None
    /\ last.flag

\* C9: add (v + x) with a Pitch, a list of Pitches or a Voicing succeeds; the
\* result keeps v's root and holds, in ascending order, v's pitches plus the
\* appended ones: a single Pitch only if v has no pitch of that value, every
\* element of a list or Voicing unconditionally (length len(v) + len(x)).
C9_AddAppendsAndSorts ==
    (last.op = "add" /\ last.arg.kind \in {"Pitch", "list", "Voicing"}
       /\ ~(last.arg.kind = "list" /\ last.arg.value # 0))
        => LET v == last.before.pitches
               appended == IF last.arg.kind = "Pitch"
                           THEN (IF \E i \in 1..Len(v) : v[i] = last.arg.value
                                 THEN <<>> ELSE <<last.arg.value>>)
                           ELSE last.arg.items
           IN  /\ last.err = ""
               /\ Bound(last.dst)
               /\ root[last.dst] = last.before.root
               /\ IsSorted(lists[listOf[last.dst]])
               /\ SameBag(lists[listOf[last.dst]], v \o appended)
               /\ last.arg.kind # "Pitch"
                    => Len(lists[listOf[last.dst]]) = Len(v) + Len(last.arg.items)

\* C9 witness: a list with a value the receiver already holds was added, and
\* the result holds that value twice
C9_Witness ==
    /\ last.op = "add" /\ last.err = "" /\ last.arg.kind = "list"
    /\ Len(last.arg.items) = 2
    /\ \E i \in 1..Len(last.before.pitches) : last.before.pitches[i] = last.arg.items[1]
    /\ Count(lists[listOf[last.dst]], last.arg.items[1]) >= 2
    /\ ~IsSorted(last.before.pitches \o last.arg.items)

\* the decimal form of each root offset 0..11
OffsetText ==
    <<<<"0">>, <<"1">>, <<"2">>, <<"3">>, <<"4">>, <<"5">>, <<"6">>, <<"7">>, <<"8">>, <<"9">>,
      <<"1", "0">>, <<"1", "1">>>>

\* C10: for a voicing v with a root, Voicing.from_csv(v.csv) has the same root
\* offset and the same pitch values in the same order; with no pitches the csv
\* string is just the root offset.
C10_CsvRoundTrip ==
    (last.op = "csv_from_csv" /\ last.before.root # None)
        => /\ last.err = ""
           /\ Bound(last.dst)
           /\ root[last.dst] = last.before.root
           /\ lists[listOf[last.dst]] = last.before.pitches
           /\ last.before.pitches = <<>> => last.text = OffsetText[last.before.root[1] + 1]

\* C10 witness: a voicing with a two-digit root offset, a negative pitch and a
\* three-digit pitch went through the round trip
C10_Witness ==
    /\ last.op = "csv_from_csv" /\ last.err = ""
    /\ last.before.root = Some(11)
    /\ last.before.pitches = <<127, 0 - 120>>
    /\ lists[listOf[last.dst]] = <<127, 0 - 120>>

\* the 0-based position of the first pitch of ps satisfying Hit, -1 when none does
FirstWhere(ps, Hit(_)) ==
    IF \E i \in 1..Len(ps) : Hit(ps[i])
    THEN (CHOOSE i \in 1..Len(ps) : Hit(ps[i]) /\ \A j \in 1..(i - 1) : ~Hit(ps[j])) - 1
    ELSE 0 - 1

\* C11: index(s) for a name+octave string s returns the position of the pitch
\* whose string form is s, and -1 when s is the string form of no pitch of the
\* voicing.
C11_IndexByPitchString ==
    (last.op = "index" /\ last.arg.kind = "str" /\ last.arg.items \in PitchStrings)
        => LET SameText(v) == PitchStr(v) = last.arg.items
           IN  /\ last.err = ""
               /\ last.ret = Some(FirstWhere(last.before.pitches, SameText))

\* C12: index(key) never fails: for a Pitch, an int, a Chroma, a pitch-class
\* name or a name+octave string it returns the position of the first matching
\* pitch (a Chroma or a name matching by pitch class), or -1 when none matches.
C12_IndexNeverFails ==
    (/\ last.op = "index"
     /\ \/ last.arg.kind \in {"Pitch", "int", "Chroma"}
        \/ last.arg.kind = "str" /\ last.arg.items \in OffsetNames \cup PitchStrings)
        => LET key == last.arg
               Matches(v) ==
                   CASE key.kind \in {"Pitch", "int"} -> v = key.value
                     [] key.kind = "Chroma" -> v % 12 = key.value
                     [] key.items \in OffsetNames -> v % 12 = OFFSET_OF(key.items)
                     [] OTHER -> PitchStr(v) = key.items
           IN  /\ last.err = ""
               /\ last.ret = Some(FirstWhere(last.before.pitches, Matches))

\* no pitch of the voicing (r, ps) answers to the non-integer key: no pitch has
\* the value of a Pitch key or the pitch class of a Chroma or name key; a
\* name+octave string answers to no chord-tone tag
Unresolved(r, ps, key) ==
    \/ key.kind = "Pitch" /\ \A i \in 1..Len(ps) : ps[i] # key.value
    \/ key.kind = "Chroma" /\ \A i \in 1..Len(ps) : ps[i] % 12 # key.value
    \/ key.kind = "str" /\ key.items \in OffsetNames
          /\ \A i \in 1..Len(ps) : ps[i] % 12 # OFFSET_OF(key.items)
    \/ key.kind = "str" /\ key.items \in PitchStrings /\ (r # None \/ ps = <<>>)

\* the 1-based position an integer key k addresses in a list of n elements, 0
\* when it addresses none
Position(n, k) == IF k >= 0 /\ k < n THEN k + 1 ELSE IF k < 0 /\ k + n >= 0 THEN k + n + 1 ELSE 0

C14_MatrixShape ==
    (last.op = "matrix")
        => LET ps == last.before.pitches
               N == Len(ps)
               m == last.ret[1]
           IN  /\ last.err = "" /\ last.ret # None
               /\ N <= 1 => m = <<>>
               /\ N > 1 => /\ Len(m) = N - 1
                           /\ \A i \in 1..(N - 1) :
                                 /\ Len(m[i]) = N
                                 /\ \A j \in 1..N :
                                       m[i][j] = IF j > i THEN ps[j] - ps[i] ELSE 0

\* C14 witness: the matrix of PairLen pitches with a descending pair was taken
C14_Witness ==
    /\ last.op = "matrix" /\ Len(last.before.pitches) = PairLen
    /\ last.before.pitches[1] > last.before.pitches[2]
    /\ Len(last.ret[1]) = PairLen - 1

\* C15 as stated: row 0 of the matrix of [C4, E4, G4] is [4, 7].
C15_TriadRowWithoutZero ==
    (last.op = "matrix" /\ last.before.pitches = <<BaseValue, BaseValue + 4, BaseValue + 7>>)
        => last.ret[1][1] = <<4, 7>>

\* C15: the matrix of [C4, E4, G4] is [[0, 4, 7], [0, 0, 3]]: row 0 holds a 0 in
\* the column of C4 itself, then the interval from C4 to E4 and from C4 to G4.
C15_TriadMatrix ==
    (last.op = "matrix" /\ last.before.pitches = <<BaseValue, BaseValue + 4, BaseValue + 7>>)
        => last.ret = Some(<< <<0, 4, 7>>, <<0, 0, 3>> >>)

\* C15 witness: the matrix of [C4, E4, G4] was taken and has two rows
C15_Witness ==
    /\ last.op = "matrix"
    /\ last.before.pitches = <<BaseValue, BaseValue + 4, BaseValue + 7>>
    /\ Len(last.ret[1]) = 2

\* the index pairs i < j of ps that are n semitones apart
PairsApart(ps, n) ==
    {p \in (1..Len(ps)) \X (1..Len(ps)) : p[1] < p[2] /\ ps[p[2]] - ps[p[1]] = n}

\* the place of pair p among the pairs of S in the order of (i, j)
PairRank(S, p) ==
    Cardinality({q \in S : q[1] < p[1] \/ (q[1] = p[1] /\ q[2] <= p[2])})

\* C16: v % n, n an integer, returns one copy of pitches[i] for every index
\* pair i < j with pitches[j] - pitches[i] = n, in the order of (i, j), and
\* nothing else; [C4, E4, G4, C5] % 7 is [C4].
C16_ModCollectsLowers ==
    (last.op = "mod" /\ last.arg.kind = "int")
        => LET ps == last.before.pitches
               S == PairsApart(ps, last.arg.value)
               out == last.ret[1]
           IN  /\ last.err = "" /\ last.ret # None
               /\ Len(out) = Cardinality(S)
               /\ \A p \in S : out[PairRank(S, p)] = ps[p[1]]
               /\ (ps = <<BaseValue, BaseValue + 4, BaseValue + 7, BaseValue + Octave>>
                     /\ last.arg.value = 7) => out = <<BaseValue>>

\* C16 witness: [C4, E4, G4, C5] % 7 was computed and has one element
C16_Witness ==
    /\ last.op = "mod" /\ last.arg = Arg("int", 7, <<>>)
    /\ last.before.pitches = <<BaseValue, BaseValue + 4, BaseValue + 7, BaseValue + Octave>>
    /\ Len(last.ret[1]) = 1

C18_PitchEqualsIntervalByOffset ==
    (last.op = "pitch_eq" /\ last.arg.kind = "Interval")
        => (last.flag <=> (last.arg2.value % 12 = last.arg.value % 12))

\* C19: a Pitch p equals a pitch-class name s iff the offset the name table
\* gives s is p.offset, whatever p's octave, so every enharmonic spelling of
\* p's pitch class equals p, as it equals Chroma(p).
C19_PitchEqualsNameByOffset ==
    (last.op = "pitch_eq" /\ last.arg.kind = "str" /\ last.arg.items \in OffsetNames)
        => /\ last.flag <=> (OFFSET_OF(last.arg.items) = last.arg2.value % 12)
           /\ last.flag <=> ChromaEqual(ChromaInit(last.arg2.value), last.arg).eq

\* C20: a Chroma moved up by an interval of any signed distance and then down
\* by the same interval equals the Chroma it was.
C20_ChromaUpDownInverse ==
    (last.op = "up_down")
        => (last.err = "" /\ last.flag /\ last.ret = Some(last.arg2.value))

\* C20 witness: a Chroma was moved up and then down by a descending interval
\* wider than an octave and equals what it was
C20_Witness ==
    /\ last.op = "up_down" /\ last.arg.kind = "Interval"
    /\ last.arg.value < 0 - Octave
    /\ last.flag

\* C21: Chroma(n).offset is n mod 12 for every integer n, negative included,
\* and Chroma(n) == Chroma(n + 12); every Chroma built from an int, a name, a
\* Pitch or a Chroma and moved up and down any number of times has its offset
\* in 0..11, and the difference of two Chromas is an integer in 0..11.
C21_ChromaOffsetReduced ==
    /\ (last.op = "chroma" /\ last.arg.kind = "int")
         => LET n == last.arg.value
            IN  /\ last.err = ""
                /\ last.ret[1] \in 0..11
                /\ \E q \in (0 - BaseValue)..BaseValue : n = 12 * q + last.ret[1]
                /\ ChromaEqual(ChromaInit(n), Arg("Chroma", ChromaInit(n + 12), <<>>)).eq
    /\ (last.op \in {"chroma", "shift", "minus", "up", "up_down"} /\ last.err = "")
         => last.ret[1] \in 0..11

\* C21 witness: a Chroma built from a negative integer was moved and is B
C21_Witness ==
    /\ last.op = "shift" /\ last.arg.kind = "int" /\ last.arg.value < 0
    /\ last.ret = Some(11)

\* C22: Pitch(n, o), n a pitch-class name and o any octave, has value
\* offsetOf(n) + (o + 1) * 12, octave o, offset offsetOf(n) and the canonical
\* name of that offset (Pitch('C', 4) is 60); every Pitch has value = offset +
\* (octave + 1) * 12 with offset in 0..11; writing an offset in 0..11 keeps
\* the octave and writing the octave keeps the offset.
C22_PitchComponents ==
    LET v == last.ret[1]
        old == last.arg2.value
        new == last.arg2.items[1]
    IN  /\ (last.op = "pitch" /\ last.arg.kind = "str" /\ last.arg.items \in OffsetNames)
             => LET o == last.arg.root[1]
                    off == OFFSET_OF(last.arg.items)
                IN  /\ last.err = ""
                    /\ v = off + (o + 1) * 12
                    /\ PitchOctave(v) = o /\ PitchOffset(v) = off
                    /\ PitchName(v) = CHROMA_OF[off + 1] /\ OFFSET_OF(PitchName(v)) = off
                    /\ (last.arg.items = <<"C">> /\ o = 4) => v = 60
        /\ (last.op \in {"pitch", "offset_set", "octave_set"} /\ last.err = "")
             => /\ v = PitchOffset(v) + (PitchOctave(v) + 1) * 12
                /\ PitchOffset(v) \in 0..11
        /\ (last.op = "offset_set" /\ new \in 0..11)
             => (PitchOffset(v) = new /\ PitchOctave(v) = PitchOctave(old))
        /\ (last.op = "octave_set")
             => (PitchOctave(v) = new /\ PitchOffset(v) = PitchOffset(old))

\* C22 witness: the Pitch B in octave -2 (value -1) was built and moved to
\* octave 4 (value 71)
C22_Witness ==
    /\ last.op = "octave_set" /\ last.arg = [Arg("str", 0, <<"B">>) EXCEPT !.root = Some(0 - 2)]
    /\ last.arg2 = Arg("Pitch", 0 - 1, <<4>>)
    /\ last.ret = Some(71)

\* C23: a Pitch p moved up by x has value p.value + Interval(x).distance, x an
\* int, an Interval or a Chroma, or p.value + x.value when x is a Pitch; moved
\* down again by x it has value p.value; C4 up 7 semitones is G in octave 4
\* and C4 up 12 semitones is C in octave 5.
C23_PitchTranspose ==
    LET p == last.arg2.value
        x == last.arg
        v == last.ret[1]
    IN  /\ (last.op = "pitch_up" /\ x.kind \in {"int", "Interval", "Chroma", "Pitch"})
             => /\ last.err = "" /\ v = p + x.value
                /\ (p = 60 /\ x.kind \in {"int", "Interval"} /\ x.value = 7)
                      => (v % 12 = 7 /\ PitchOctave(v) = 4)
                /\ (p = 60 /\ x.kind \in {"int", "Interval"} /\ x.value = 12)
                      => (v % 12 = 0 /\ PitchOctave(v) = 5)
        /\ (last.op = "pitch_up_down" /\ x.kind \in {"int", "Interval", "Chroma", "Pitch"})
             => (last.err = "" /\ v = p)

\* C23 witness: C4 was moved up and then down by an Interval of 12 semitones
C23_Witness ==
    /\ last.op = "pitch_up_down"
    /\ last.arg2 = Arg("Pitch", 60, <<>>) /\ last.arg = Arg("Interval", 12, <<>>)
    /\ last.ret = Some(60)

\* C24: for all pitches p and q exactly one of p < q, p == q and p > q holds,
\* and it is the one that holds between p.value and q.value.
C24_PitchOrderTotal ==
    (last.op = "pitch_cmp")
        => LET p == last.arg2.value
               q == last.arg.value
               is == last.ret[1]
           IN  /\ Cardinality({k \in 1..3 : is[k]}) = 1
               /\ is[1] <=> p < q
               /\ is[2] <=> p = q
               /\ is[3] <=> p > q

\* C24 witness: two pitches of the same pitch class an octave apart were
\* compared and the first is the lower
C24_Witness ==
    /\ last.op = "pitch_cmp"
    /\ last.arg.value = last.arg2.value + Octave
    /\ last.ret = Some(<<TRUE, FALSE, FALSE>>)

\* C25: v + x fails with a TypeError when x is a list holding an element that
\* is not a Pitch, or when x is neither a Pitch, a list nor a Voicing; v has
\* the root and the pitches it had, and no voicing is returned.
C25_AddRejectsNonPitch ==
    (last.op = "add" /\ \/ last.arg.kind = "list" /\ last.arg.value # 0
                        \/ last.arg.kind \notin {"Pitch", "list", "Voicing"})
        => /\ last.err = "TypeError"
           /\ Content(last.recv) = last.before
           /\ ~Bound(last.dst)

\* C25 witness: a list whose second element is not a Pitch was added to a
\* voicing of CallLen pitches, which failed
C25_Witness ==
    /\ last.op = "add" /\ last.err = "TypeError"
    /\ last.arg.kind = "list" /\ last.arg.value = 2 /\ Len(last.arg.items) = 2
    /\ Len(last.before.pitches) = CallLen
    /\ Content(1) = last.before

\* C26: for a voicing v with a root and an integer k, positive or negative,
\* multiples of 12 included, ~(v * k) is the tag list ~v.
C26_TonesKeptByTransposition ==
    (last.op = "invert" /\ last.recv = 2)
        => LET was == VoicingInvert(Content(1))
           IN  /\ last.err = "" /\ was.err = ""
               /\ last.tones = was.tones
               /\ Len(last.tones) = Len(lists[listOf[1]])

\* C26 witness: a voicing of MovedLen pitches moved down by an octave and a
\* semitone was classified, and it holds a fifth
C26_Witness ==
    /\ last.op = "invert" /\ last.recv = 2
    /\ Len(lists[listOf[1]]) = MovedLen
    /\ lists[listOf[2]][1] = lists[listOf[1]][1] - Octave - 1
    /\ \E i \in 1..MovedLen : last.tones[i] = "5"

\* C27: two voicings a and b with a == b have equal hashes, the hash being
\* that of the string built from the root's name and the pitches' names and
\* octaves (equal strings hash alike, different strings are taken to differ).
C27_HashFollowsEq ==
    (last.op = "eq" /\ last.err = "" /\ last.flag)
        => VoicingStr(last.before) = VoicingStr(Val(last.arg.root, last.arg.items))

\* C28: v // t, t an int or a Pitch: for a non-empty v with a root the result
\* is v with the root and every pitch shifted by one common amount, its
\* reference root pitch (the first pitch lowered by its offset from the root)
\* has t's value, its root is t's pitch class, and it compares equal to v; for
\* an empty v the result is a copy of v.
C28_FloordivLandsOnTarget ==
    (last.op = "floordiv" /\ last.arg.kind \in {"int", "Pitch"})
        => LET ps == last.before.pitches
               r == last.before.root
               t == last.arg.value
               qs == lists[listOf[last.dst]]
               s == ps[1] - qs[1]
           IN  /\ ps = <<>> => (last.err = "" /\ Content(last.dst) = last.before
                                  /\ Content(last.recv) = last.before)
               /\ (ps # <<>> /\ r # None)
                    => /\ last.err = ""
                       /\ Len(qs) = Len(ps)
                       /\ \A i \in 1..Len(ps) : qs[i] = ps[i] - s
                       /\ root[last.dst] = Some((r[1] - s) % 12)
                       /\ root[last.dst] = Some(t % 12)
                       /\ qs[1] - ((qs[1] - root[last.dst][1]) % 12) = t
                       /\ VoicingEq(Content(last.dst), last.before) = [err |-> "", flag |-> TRUE]

\* C28 witness: a voicing of CallLen pitches with root G, its first pitch not
\* a G, was taken to the target -5 and its root is still G
C28_Witness ==
    /\ last.op = "floordiv" /\ last.err = "" /\ last.arg = Arg("int", 0 - 5, <<>>)
    /\ Len(last.before.pitches) = CallLen
    /\ last.before.root = Some(7) /\ last.before.pitches[1] % 12 # 7
    /\ root[2] = Some(7)

====
